---- MODULE Spec2Model ----
(***************************************************************************)
(* Valuation pipeline of the financial tracker: calculate_portfolio and    *)
(* get_price of calculate_portfolio.py, as a state machine.                *)
(*                                                                         *)
(* One run of calculate_portfolio is modelled: the CSV file is read, the   *)
(* row loop enriches one row per step (a step is one whole iteration,      *)
(* get_price included; the last iteration also saves the file), and the    *)
(* wall clock may advance between the steps.                               *)
(*                                                                         *)
(* Representation.  Text the code inspects character by character (the     *)
(* Type cell, the purchase date, the provider's price field) is a tuple of *)
(* one-character strings.  A cell of the data frame is a record: NaN is    *)
(* [na |-> TRUE], a value is [na |-> FALSE, v |-> x].  Amounts are whole   *)
(* numbers (the float arithmetic of the code is exact on them); a quotient *)
(* is a fraction <<n, d>> in lowest terms with d > 0.                      *)
(*                                                                         *)
(* The other programs of the repository have their own specifications:     *)
(* LauncherSpec (main.py: the feature flag, the script buttons and the     *)
(* child scripts' parse_args), ThemeSpec (set_current_theme of utils.py)   *)
(* and BudgetSpec (the Sankey links of visualize_budget.py).  Under each   *)
(* specification the variables of the other programs stay as they start.   *)
(***************************************************************************)
EXTENDS Integers, Sequences, FiniteSets, TLC

VARIABLES
    input,        \* the CSV file on disk: [cols, rows]
    portfolio,    \* the data frame of calculate_portfolio: [cols, rows]
    pc,           \* "start", "loop", "done", "empty" (returned at line 70), "raised"
    index,        \* position of iterrows in the frame, 1-based
    total_value,  \* the accumulator of line 81
    now,          \* the wall clock, in hours
    calls,        \* the requests sent to the quote provider, with their responses
    stdout,       \* what the run has printed
    outfile,      \* the output CSV file: [written, cols, rows]
    exception     \* the exception that ended the run, "" when none

vars == <<input, portfolio, pc, index, total_value, now, calls, stdout, outfile, exception>>

\* the other programs of the repository, each checked under its own specification
VARIABLES
    SHOW_DOLLAR,     \* main.py: the global feature flag
    n_clicks,        \* main.py: the page's click count of each button
    layout,          \* main.py: the page, [loaded, feature_flag_label, feature_flag_button, output]
    os_calls,        \* main.py: the kill_port and os.system calls made, in order
    children,        \* the child processes started by os.system
    current_theme,   \* utils.py: the global of that name
    DEFAULT_COLORS,  \* utils.py: the global of that name
    styles,          \* utils.py: the eight style dictionaries, by name
    theme_calls,     \* the set_current_theme calls made: [theme_name, raised]
    budget           \* visualize_budget.py: the state of one run of visualize_budget

lvars == <<SHOW_DOLLAR, n_clicks, layout, os_calls, children>>

tvars == <<current_theme, DEFAULT_COLORS, styles, theme_calls>>

bvars == <<budget>>

---------------------------------------------------------------------------
(* Bounds of the model *)

MaxRows == 2
MaxQty == 2
MaxPrice == 2
MaxTicks == 1

---------------------------------------------------------------------------
(* Cells, numbers, fractions *)

NaN == [na |-> TRUE]

Val(x) == [na |-> FALSE, v |-> x]

\* pandas.isna on a scalar
IsNa(c) == c.na

Abs(n) == IF n < 0 THEN -n ELSE n

RECURSIVE Gcd(_, _)
Gcd(a, b) == IF b = 0 THEN a ELSE Gcd(b, a % b)

\* n / d as a fraction in lowest terms, d # 0
Frac(n, d) ==
    LET g == Gcd(Abs(n), Abs(d))
        s == IF d < 0 THEN -1 ELSE 1
    IN  <<(s * n) \div g, (s * d) \div g>>

\* float arithmetic with NaN: any operand NaN gives NaN
Sub(a, b) == IF a.na \/ b.na THEN NaN ELSE Val(a.v - b.v)

Mul(a, b) == IF a.na \/ b.na THEN NaN ELSE Val(a.v * b.v)

\* the accumulation written as an assignment
MutAdd(a, b) == b

Add(a, b) == IF a.na \/ b.na THEN NaN ELSE Val(a.v + b.v)

\* a > 0 in Python: False for NaN
GtZero(a) == (~a.na) /\ a.v > 0

IsZero(a) == (~a.na) /\ a.v = 0

\* (a / b) * 100 for b # 0
Quot100(a, b) == IF a.na \/ b.na THEN NaN ELSE Val(Frac(a.v * 100, b.v))

---------------------------------------------------------------------------
(* Text *)

UpperLetters == <<"A","B","C","D","E","F","G","H","I","J","K","L","M",
                  "N","O","P","Q","R","S","T","U","V","W","X","Y","Z">>

LowerLetters == <<"a","b","c","d","e","f","g","h","i","j","k","l","m",
                  "n","o","p","q","r","s","t","u","v","w","x","y","z">>

LowerChar(c) ==
    IF \E i \in DOMAIN UpperLetters : UpperLetters[i] = c
    THEN LowerLetters[CHOOSE i \in DOMAIN UpperLetters : UpperLetters[i] = c]
    ELSE c

UpperChar(c) ==
    IF \E i \in DOMAIN LowerLetters : LowerLetters[i] = c
    THEN UpperLetters[CHOOSE i \in DOMAIN LowerLetters : LowerLetters[i] = c]
    ELSE c

\* str.lower leaving the letters as they are
MutLower(s) == s

\* str.lower
Lower(s) == [i \in DOMAIN s |-> LowerChar(s[i])]

\* str.upper
Upper(s) == [i \in DOMAIN s |-> UpperChar(s[i])]

Digits == <<"0","1","2","3","4","5","6","7","8","9">>

IsDigit(c) == \E i \in DOMAIN Digits : Digits[i] = c

DigitVal(c) == (CHOOSE i \in DOMAIN Digits : Digits[i] = c) - 1

IsDigits(s) == Len(s) > 0 /\ \A i \in DOMAIN s : IsDigit(s[i])

RECURSIVE ToNat(_)
ToNat(s) ==
    IF Len(s) = 0 THEN 0
    ELSE 10 * ToNat(SubSeq(s, 1, Len(s) - 1)) + DigitVal(s[Len(s)])

RECURSIVE NatStr(_)
\* decimal text of a natural number
NatStr(n) ==
    IF n < 10 THEN <<Digits[n + 1]>>
    ELSE NatStr(n \div 10) \o <<Digits[(n % 10) + 1]>>

RECURSIVE PadLeft(_, _)
PadLeft(s, w) == IF Len(s) >= w THEN s ELSE PadLeft(<<"0">> \o s, w)

\* the text YYYY-MM-DD of a date
DateText(y, m, d) ==
    PadLeft(NatStr(y), 4) \o <<"-">> \o PadLeft(NatStr(m), 2) \o <<"-">> \o PadLeft(NatStr(d), 2)

---------------------------------------------------------------------------
(* Dates: datetime.strptime(text, "%Y-%m-%d") and datetime subtraction *)

IsLeap(y) == (y % 4 = 0) /\ ((y % 100 # 0) \/ (y % 400 = 0))

DaysInMonth(y, m) ==
    IF m = 2 THEN (IF IsLeap(y) THEN 29 ELSE 28)
    ELSE IF m \in {4, 6, 9, 11} THEN 30 ELSE 31

RECURSIVE DaysBeforeMonth(_, _)
DaysBeforeMonth(y, m) ==
    IF m <= 1 THEN 0 ELSE DaysBeforeMonth(y, m - 1) + DaysInMonth(y, m - 1)

\* date.toordinal: days since 0001-01-01, that day being 1
DayNumber(y, m, d) ==
    LET p == y - 1
    IN  p * 365 + (p \div 4) - (p \div 100) + (p \div 400) + DaysBeforeMonth(y, m) + d

\* datetime.strptime(s, "%Y-%m-%d"): the day number, or ValueError
Strptime(s) ==
    LET dashes == {i \in DOMAIN s : s[i] = "-"}
    IN  IF Cardinality(dashes) # 2 THEN [ok |-> FALSE, day |-> 0]
        ELSE
          LET p1 == CHOOSE i \in dashes : \A j \in dashes : i <= j
              p2 == CHOOSE i \in dashes : \A j \in dashes : j <= i
              ys == SubSeq(s, 1, p1 - 1)
              ms == SubSeq(s, p1 + 1, p2 - 1)
              ds == SubSeq(s, p2 + 1, Len(s))
          IN  IF ~(IsDigits(ys) /\ Len(ys) = 4 /\ IsDigits(ms) /\ Len(ms) <= 2
                   /\ IsDigits(ds) /\ Len(ds) <= 2)
              THEN [ok |-> FALSE, day |-> 0]
              ELSE
                LET y == ToNat(ys)
                    m == ToNat(ms)
                    d == ToNat(ds)
                IN  IF y >= 1 /\ m \in 1..12 /\ d >= 1 /\ d <= DaysInMonth(y, m)
                    THEN [ok |-> TRUE, day |-> DayNumber(y, m, d)]
                    ELSE [ok |-> FALSE, day |-> 0]

\* a wall-clock instant in hours: hour h of the day DayNumber(y, m, d)
Clock(y, m, d, h) == 24 * DayNumber(y, m, d) + h

\* (clock - midnight of day).days: timedelta.days is the floor of the difference
DeltaDays(clock, day) == (clock - 24 * day) \div 24

\* lines 114-122: the Long-Term Hold text of a purchase-date cell read at clock
MutHoldStatus(purchase_date, clock) ==
    IF ~IsNa(purchase_date)
    THEN LET parsed == Strptime(purchase_date.v)
         IN  IF parsed.ok
             THEN (IF DeltaDays(clock, parsed.day) >= 365 * 2 THEN "Green" ELSE "Red")
             ELSE "Invalid Date"
    ELSE "No Date"

LONG_TERM_HOLD_YEARS == 2

HoldStatus(purchase_date, clock) ==
    IF ~IsNa(purchase_date)
    THEN LET parsed == Strptime(purchase_date.v)
         IN  IF parsed.ok
             \* days / 365 > LONG_TERM_HOLD_YEARS, the quotient taken exactly
             THEN (IF DeltaDays(clock, parsed.day) > 365 * LONG_TERM_HOLD_YEARS
                   THEN "Green" ELSE "Red")
             ELSE "Invalid Date"
    ELSE "No Date"

---------------------------------------------------------------------------
(* The quote provider's responses and get_price *)

JStr(s) == [t |-> "str", s |-> s]

JList == [t |-> "list"]

JDict(m) == [t |-> "dict", m |-> m]

\* x[k] in Python for a parsed JSON value x and a string key k
Subscript(x, k) ==
    IF x.t = "dict"
    THEN (IF k \in DOMAIN x.m THEN [exc |-> "", val |-> x.m[k]]
          ELSE [exc |-> "KeyError", val |-> JList])
    ELSE [exc |-> "TypeError", val |-> JList]

\* float(x) in Python for a parsed JSON value x
Float(x) ==
    IF x.t = "str"
    THEN (IF IsDigits(x.s) THEN [exc |-> "", val |-> ToNat(x.s)]
          ELSE [exc |-> "ValueError", val |-> 0])
    ELSE [exc |-> "TypeError", val |-> 0]

T_cash == <<"c","a","s","h">>

T_401k == <<"4","0","1","k">>

T_hsa == <<"h","s","a">>

T_espp == <<"e","s","p","p">>

T_stock == <<"s","t","o","c","k">>

T_etf == <<"e","t","f">>

T_crypto == <<"c","r","y","p","t","o">>

\* what get_price does: tag "return" (val is the price), "none" (returned None)
\* or "raise" (exc propagates); called: the request went out; msgs: what it printed
Outcome(tag, val, exc, called, request, msgs) ==
    [tag |-> tag, val |-> val, exc |-> exc, called |-> called,
     request |-> request, msgs |-> msgs]

NoRequest == [function |-> "", symbol |-> <<>>]

\* lines 45-55: requests.get, response.json and the lookup under try/except KeyError
Fetch(request, k1, k2, resp) ==
    IF resp.kind = "ConnectionError"
    THEN Outcome("raise", 0, "ConnectionError", TRUE, request, <<>>)
    ELSE IF ~resp.json
    THEN Outcome("raise", 0, "JSONDecodeError", TRUE, request, <<>>)
    ELSE
      LET outer == Subscript(resp.data, k1)
          inner == Subscript(outer.val, k2)
          price == Float(inner.val)
          exc == IF outer.exc # "" THEN outer.exc
                 ELSE IF inner.exc # "" THEN inner.exc
                 ELSE price.exc
      IN  IF exc = "" THEN Outcome("return", price.val, "", TRUE, request, <<>>)
          ELSE IF exc = "KeyError"
          THEN Outcome("return", 0, "", TRUE, request, <<"Error fetching price">>)
          ELSE Outcome("raise", 0, exc, TRUE, request, <<>>)

\* get_price with etf left out of the types quoted by GLOBAL_QUOTE
MutGetPriceNoEtf(ticker, asset_type, resp) ==
    IF asset_type \in {T_cash, T_401k, T_hsa, T_espp}
    THEN Outcome("return", 1, "", FALSE, NoRequest, <<>>)
    ELSE IF asset_type = T_stock
    THEN Fetch([function |-> "GLOBAL_QUOTE", symbol |-> ticker],
               "Global Quote", "05. price", resp)
    ELSE IF asset_type = T_crypto
    THEN Fetch([function |-> "CURRENCY_EXCHANGE_RATE", symbol |-> Upper(ticker)],
               "Realtime Currency Exchange Rate", "5. Exchange Rate", resp)
    ELSE Outcome("none", 0, "", FALSE, NoRequest, <<"Unsupported asset type">>)

\* get_price with espp left out of the fixed-unit list
MutGetPriceNoEspp(ticker, asset_type, resp) ==
    IF asset_type \in {T_cash, T_401k, T_hsa}
    THEN Outcome("return", 1, "", FALSE, NoRequest, <<>>)
    ELSE IF asset_type \in {T_stock, T_etf, T_espp}
    THEN Fetch([function |-> "GLOBAL_QUOTE", symbol |-> ticker],
               "Global Quote", "05. price", resp)
    ELSE Outcome("none", 0, "", FALSE, NoRequest, <<"Unsupported asset type">>)

\* get_price with the final else falling through to the quote request
MutGetPriceNoElse(ticker, asset_type, resp) ==
    IF asset_type \in {T_cash, T_401k, T_hsa, T_espp}
    THEN Outcome("return", 1, "", FALSE, NoRequest, <<>>)
    ELSE IF asset_type = T_crypto
    THEN Fetch([function |-> "CURRENCY_EXCHANGE_RATE", symbol |-> Upper(ticker)],
               "Realtime Currency Exchange Rate", "5. Exchange Rate", resp)
    ELSE Fetch([function |-> "GLOBAL_QUOTE", symbol |-> ticker],
               "Global Quote", "05. price", resp)

\* get_price(ticker, asset_type), resp being what the provider answers if asked
GetPrice(ticker, asset_type, resp) ==
    IF asset_type \in {T_cash, T_401k, T_hsa, T_espp}
    THEN Outcome("return", 1, "", FALSE, NoRequest, <<>>)
    ELSE IF asset_type \in {T_stock, T_etf}
    THEN Fetch([function |-> "GLOBAL_QUOTE", symbol |-> ticker],
               "Global Quote", "05. price", resp)
    ELSE IF asset_type = T_crypto
    THEN Fetch([function |-> "CURRENCY_EXCHANGE_RATE", symbol |-> Upper(ticker)],
               "Realtime Currency Exchange Rate", "5. Exchange Rate", resp)
    ELSE Outcome("none", 0, "", FALSE, NoRequest, <<"Unsupported asset type">>)

---------------------------------------------------------------------------
(* One iteration of the row loop, lines 84-129 *)

\* Series.get(col, default)
RowGet(row, col, default) == IF col \in DOMAIN row THEN row[col] ELSE default

\* what one iteration does: kind "skip" (continue), "enrich" or "raise"
Step(kind, exc, price, value, gain, pct, hold, g, msgs) ==
    [kind |-> kind, exc |-> exc, price |-> price, value |-> value, gain |-> gain,
     pct |-> pct, hold |-> hold, called |-> g.called, request |-> g.request,
     msgs |-> msgs]

NoCall == Outcome("return", 0, "", FALSE, NoRequest, <<>>)

Zero == Val(0)

Percent(n) == Val(<<n, 1>>)

\* the required-field check without the quantity
MutMissingRequired(ticker, asset_type, quantity) ==
    IsNa(ticker) \/ IsNa(asset_type)

\* lines 90-92: the required-field check
MissingRequired(ticker, asset_type, quantity) ==
    IsNa(ticker) \/ IsNa(asset_type) \/ IsNa(quantity)

\* the cash branch computing a gain from the cost basis like the other branches
MutCashStep(quantity, cost_basis, hold) ==
    Step("enrich", "", 1, quantity, Sub(quantity, cost_basis), Percent(0), hold, NoCall, <<>>)

\* lines 95-96: cash
CashStep(quantity, cost_basis, hold) ==
    Step("enrich", "", 1, quantity, Zero, Percent(0), hold, NoCall, <<>>)

\* the 401k/hsa branch taking the cost basis per unit
MutAccountStep(quantity, cost_basis, hold) ==
    LET value == Mul(Val(1), quantity)
        gain_loss == Sub(value, Mul(cost_basis, quantity))
        percentage == IF GtZero(cost_basis)
                      THEN Quot100(gain_loss, Mul(cost_basis, quantity))
                      ELSE Percent(100)
    IN  Step("enrich", "", 1, value, gain_loss, percentage, hold, NoCall, <<>>)

\* lines 97-101: 401k and hsa
AccountStep(quantity, cost_basis, hold) ==
    LET value == Mul(Val(1), quantity)
        gain_loss == Sub(value, cost_basis)
        percentage == IF GtZero(cost_basis)
                      THEN Quot100(gain_loss, cost_basis)
                      ELSE Percent(100)
    IN  Step("enrich", "", 1, value, gain_loss, percentage, hold, NoCall, <<>>)

\* the quoted branch taking the cost basis as a total
MutQuotedStep(g, quantity, cost_basis, hold) ==
    LET value == Mul(Val(g.val), quantity)
        gain_loss == IF GtZero(cost_basis) THEN Sub(value, cost_basis) ELSE value
    IN  Step("enrich", "", g.val, value, gain_loss,
             IF GtZero(cost_basis) THEN Quot100(gain_loss, cost_basis) ELSE Percent(100),
             hold, g, g.msgs)

\* lines 107-109: a row whose price get_price returned
QuotedStep(g, quantity, cost_basis, hold) ==
    LET value == Mul(Val(g.val), quantity)
        basis == Mul(cost_basis, quantity)
        gain_loss == IF GtZero(cost_basis) THEN Sub(value, basis) ELSE value
    IN  IF GtZero(cost_basis) /\ IsZero(basis)
        THEN Step("raise", "ZeroDivisionError", 0, Zero, Zero, Percent(0), "", g, g.msgs)
        ELSE Step("enrich", "", g.val, value, gain_loss,
                  IF GtZero(cost_basis) THEN Quot100(gain_loss, basis) ELSE Percent(100),
                  hold, g, g.msgs)

\* lines 84-122 for one row, resp being the provider's answer if it is asked
ProcessRow(row, resp, clock) ==
    LET ticker == row["Ticker"]
        asset_type == row["Type"]
        quantity == row["Quantity"]
        cost_basis == RowGet(row, "Cost Basis", Zero)
        purchase_date == RowGet(row, "Purchase Date", Val(<<>>))
        hold == HoldStatus(purchase_date, clock)
    IN  IF MissingRequired(ticker, asset_type, quantity)
        THEN Step("skip", "", 0, Zero, Zero, Percent(0), "", NoCall, <<"Skipping row">>)
        ELSE IF asset_type.v = T_cash
        THEN CashStep(quantity, cost_basis, hold)
        ELSE IF asset_type.v \in {T_401k, T_hsa}
        THEN AccountStep(quantity, cost_basis, hold)
        ELSE
          LET g == GetPrice(ticker.v, asset_type.v, resp)
          IN  IF g.tag = "raise"
              THEN Step("raise", g.exc, 0, Zero, Zero, Percent(0), "", g, g.msgs)
              ELSE IF g.tag = "none"
              THEN Step("skip", "", 0, Zero, Zero, Percent(0), "", g,
                        g.msgs \o <<"Unknown asset type">>)
              ELSE QuotedStep(g, quantity, cost_basis, hold)

\* the stores of lines 125-129 with the running total stored as the row's Value
MutEnrichedRunningTotal(row, r) ==
    [c \in DOMAIN row |->
        IF c = "Current Price" THEN Val(r.price)
        ELSE IF c = "Value" THEN Add(total_value, r.value)
        ELSE IF c = "Gain/Loss" THEN r.gain
        ELSE IF c = "% Gain/Loss" THEN r.pct
        ELSE IF c = "Long-Term Hold" THEN r.hold
        ELSE row[c]]

\* the stores of lines 125-129 without the one of Value
MutEnriched(row, r) ==
    [c \in DOMAIN row |->
        IF c = "Current Price" THEN Val(r.price)
        ELSE IF c = "Gain/Loss" THEN r.gain
        ELSE IF c = "% Gain/Loss" THEN r.pct
        ELSE IF c = "Long-Term Hold" THEN r.hold
        ELSE row[c]]

\* lines 125-129: the row with its five computed cells stored
Enriched(row, r) ==
    [c \in DOMAIN row |->
        IF c = "Current Price" THEN Val(r.price)
        ELSE IF c = "Value" THEN r.value
        ELSE IF c = "Gain/Loss" THEN r.gain
        ELSE IF c = "% Gain/Loss" THEN r.pct
        ELSE IF c = "Long-Term Hold" THEN r.hold
        ELSE row[c]]

---------------------------------------------------------------------------
(* The inputs: CSV files and provider responses *)

RequiredCols == {"Ticker", "Type", "Quantity"}

ComputedCols == {"Current Price", "Value", "Gain/Loss", "% Gain/Loss", "Long-Term Hold"}

TickerCells == {NaN, Val(<<"b","t","c">>)}

TypeTexts ==
    {T_cash, <<"C","a","s","h">>, T_401k, T_hsa, T_espp, T_stock, <<"S","T","O","C","K">>,
     T_etf, T_crypto, <<"b","o","n","d">>}

TypeCells == {NaN} \cup {Val(t) : t \in TypeTexts}

QuantityCells == {NaN, Val(5)} \cup {Val(q) : q \in 0..MaxQty}

CostCells == {NaN, Val(-1), Val(0), Val(3), Val(100)}

DateTexts ==
    {<<"n","o","t","-","a","-","d","a","t","e">>,
     DateText(2021, 3, 2), DateText(2022, 3, 1), DateText(2022, 3, 2),
     DateText(2023, 3, 2), DateText(2024, 3, 3), DateText(2022, 2, 30),
     <<"2","0","2","2","-","3","-","1">>}

DateCells == {NaN} \cup {Val(t) : t \in DateTexts}

LiquidityCells == {Val(<<"H","i","g","h">>)}

RowOf(cols, t, ty, q, c, d, l) ==
    [col \in cols |->
        IF col = "Ticker" THEN t
        ELSE IF col = "Type" THEN ty
        ELSE IF col = "Quantity" THEN q
        ELSE IF col = "Cost Basis" THEN c
        ELSE IF col = "Purchase Date" THEN d
        ELSE l]

\* every row over the columns cols
FullRows(cols) ==
    {RowOf(cols, t, ty, q, c, d, l) :
        t \in TickerCells, ty \in TypeCells, q \in QuantityCells,
        c \in CostCells, d \in DateCells, l \in LiquidityCells}

\* the rows used in files of several rows
CoreRows(cols) ==
    {RowOf(cols, t, ty, q, c, d, l) :
        t \in TickerCells,
        ty \in {Val(T_cash), Val(T_stock), Val(<<"b","o","n","d">>)},
        q \in {NaN, Val(1)},
        c \in {Val(3)}, d \in {Val(DateText(2021, 3, 2))}, l \in LiquidityCells}

\* the column sets of a file that read_csv and lines 73-74 accept
GoodColSets == {RequiredCols \cup {"Liquidity"} \cup o : o \in SUBSET {"Cost Basis", "Purchase Date"}}

\* the spec's input columns, which have no Liquidity column
NoLiquidityCols == RequiredCols \cup {"Cost Basis", "Purchase Date"}

SeqsUpTo(S, n) == UNION {[1..k -> S] : k \in 1..n}

\* a file of zero bytes (no header line), and a file with a header line only
InputFiles ==
    {[cols |-> cols, rows |-> rows] :
        cols \in {{}, RequiredCols \cup {"Liquidity", "Cost Basis", "Purchase Date"}},
        rows \in {<<>>}}
    \cup UNION {{[cols |-> cols, rows |-> <<r>>] : r \in FullRows(cols)} : cols \in GoodColSets}
    \cup UNION {{[cols |-> cols, rows |-> rows] : rows \in SeqsUpTo(CoreRows(cols), MaxRows)} :
                 cols \in {RequiredCols \cup {"Liquidity", "Cost Basis", "Purchase Date"}, NoLiquidityCols}}

PriceTexts == {NatStr(n) : n \in 0..MaxPrice} \cup {<<"N","/","A">>}

EmptyDict == JDict(<<>>)

\* the bodies the provider may answer with
Bodies ==
    {JList, EmptyDict,
     JDict("Note" :> JStr(<<"l","i","m","i","t">>)),
     JDict("Global Quote" :> JList),
     JDict("Global Quote" :> EmptyDict),
     JDict("Global Quote" :> JDict("05. price" :> JList)),
     JDict("Realtime Currency Exchange Rate" :> EmptyDict)}
    \cup {JDict("Global Quote" :> JDict("05. price" :> JStr(t))) : t \in PriceTexts}
    \cup {JDict("Realtime Currency Exchange Rate" :> JDict("5. Exchange Rate" :> JStr(t))) :
            t \in PriceTexts}

\* requests.get raising ConnectionError; also stands for the provider not being asked
Unasked == [kind |-> "ConnectionError", json |-> FALSE, data |-> JList]

\* what requests.get and response.json can give
Responses ==
    {Unasked, [kind |-> "body", json |-> FALSE, data |-> JList]}
    \cup {[kind |-> "body", json |-> TRUE, data |-> b] : b \in Bodies}

NowStart == Clock(2024, 3, 1, 12)

---------------------------------------------------------------------------
(* The launcher: main.py, with parse_args of utils.py in the child scripts *)

MaxClicks == 3
MaxLaunches == 2

PORT_MAIN == 8050
PORT_PORTFOLIO == 8051
PORT_BUDGET == 8052
PORT_API == 8053

FlagButton == "feature_flag_button"

\* FUNCTIONS of main.py, keyed by button id
FUNCTIONS ==
    [calculate_portfolio |-> [script |-> "calculate_portfolio.py", port |-> PORT_API],
     visualize_portfolio |-> [script |-> "visualize_portfolio.py", port |-> PORT_PORTFOLIO],
     visualize_budget |-> [script |-> "visualize_budget.py", port |-> PORT_BUDGET]]

\* the button ids as the text that handle_button_click edits
ButtonText ==
    [calculate_portfolio |->
        <<"c","a","l","c","u","l","a","t","e","_","p","o","r","t","f","o","l","i","o">>,
     visualize_portfolio |->
        <<"v","i","s","u","a","l","i","z","e","_","p","o","r","t","f","o","l","i","o">>,
     visualize_budget |->
        <<"v","i","s","u","a","l","i","z","e","_","b","u","d","g","e","t">>]

\* the scripts whose __main__ block calls parse_args and serves on its port
Dashboards == {"visualize_portfolio.py", "visualize_budget.py"}

\* str(bool)
Str(b) == IF b THEN <<"T","r","u","e">> ELSE <<"F","a","l","s","e">>

\* the --show-dollar type taking the text as it is, without lower()
MutParseShowDollar(x) == x \in {<<"t","r","u","e">>, <<"1">>, <<"y","e","s">>}

\* the type of --show-dollar: lambda x: x.lower() in ["true", "1", "yes"]
ParseShowDollar(x) == Lower(x) \in {<<"t","r","u","e">>, <<"1">>, <<"y","e","s">>}

\* s.replace('_', ' ')
ReplaceUnderscore(s) == [i \in DOMAIN s |-> IF s[i] = "_" THEN " " ELSE s[i]]

IsLetter(c) == \E i \in DOMAIN UpperLetters : UpperLetters[i] = c \/ LowerLetters[i] = c

\* str.title(): a letter after a non-letter in upper case, the others in lower case
Title(s) ==
    [i \in DOMAIN s |->
        IF i = 1 \/ ~IsLetter(s[IF i = 1 THEN 1 ELSE i - 1])
        THEN UpperChar(s[i]) ELSE LowerChar(s[i])]

\* toggle_feature_flag setting the flag on odd counts
MutToggleFeatureFlag(n) ==
    LET flag == n % 2 = 1
    IN  [flag |-> flag,
         label_text |-> IF flag THEN "Balance Visible" ELSE "Balance Hidden",
         button_text |-> IF flag THEN "Hide" ELSE "Show"]

\* toggle_feature_flag(n_clicks): the new flag and the two texts returned
ToggleFeatureFlag(n) ==
    LET flag == n % 2 = 0
    IN  [flag |-> flag,
         label_text |-> IF flag THEN "Balance Visible" ELSE "Balance Hidden",
         button_text |-> IF flag THEN "Hide" ELSE "Show"]

\* kill_port(port): the processes serving on the port are killed
KillPort(procs, port) ==
    [k \in DOMAIN procs |->
        IF procs[k].state = "running" /\ procs[k].port = port
        THEN [procs[k] EXCEPT !.state = "killed"]
        ELSE procs[k]]

NoOutput == [text |-> "", name |-> <<>>]

LauncherInit ==
    /\ SHOW_DOLLAR = TRUE
    /\ n_clicks = [b \in {FlagButton} \cup DOMAIN FUNCTIONS |-> 0]
    /\ layout = [loaded |-> FALSE, feature_flag_label |-> "", feature_flag_button |-> "",
                 output |-> NoOutput]
    /\ os_calls = <<[op |-> "kill_port", port |-> PORT_MAIN, script |-> "", value |-> <<>>]>>
    /\ children = <<>>

\* the page is opened: Dash calls both callbacks once, toggle_feature_flag with
\* n_clicks = 0 and handle_button_click with nothing triggered (line 164)
PageLoad ==
    /\ ~layout.loaded
    /\ LET t == ToggleFeatureFlag(n_clicks[FlagButton])
       IN  /\ SHOW_DOLLAR' = t.flag
           /\ layout' = [loaded |-> TRUE, feature_flag_label |-> t.label_text,
                         feature_flag_button |-> t.button_text,
                         output |-> [text |-> "No action taken yet.", name |-> <<>>]]
    /\ UNCHANGED <<n_clicks, os_calls, children>>
    /\ UNCHANGED <<vars, tvars, bvars>>

\* lines 126-140: a click on the feature-flag button
FlagClick ==
    /\ layout.loaded
    /\ n_clicks[FlagButton] < MaxClicks
    /\ LET n == n_clicks[FlagButton] + 1
           t == ToggleFeatureFlag(n)
       IN  /\ n_clicks' = [n_clicks EXCEPT ![FlagButton] = n]
           /\ SHOW_DOLLAR' = t.flag
           /\ layout' = [layout EXCEPT !.feature_flag_label = t.label_text,
                                       !.feature_flag_button = t.button_text]
    /\ UNCHANGED <<os_calls, children>>
    /\ UNCHANGED <<vars, tvars, bvars>>

\* lines 42-52: run_function(script_name, port, show_dollar): what it calls and
\* the processes after it; the command line is
\* python3 <script_name> --show-dollar <value> &
RunFunction(script_name, port, show_dollar) ==
    [calls |-> <<[op |-> "kill_port", port |-> port, script |-> "", value |-> <<>>],
                 [op |-> "os.system", port |-> port, script |-> script_name,
                  value |-> Str(show_dollar)]>>,
     children |-> Append(KillPort(children, port),
                     [script |-> script_name, port |-> port, value |-> Str(show_dollar),
                      passed |-> show_dollar, state |-> "pending", show_dollar |-> TRUE])]

\* lines 149-173: a click on the button button_id
ScriptClick(button_id) ==
    /\ layout.loaded
    /\ Len(children) < MaxLaunches
    /\ n_clicks' = [n_clicks EXCEPT ![button_id] = @ + 1]
    /\ IF button_id \in DOMAIN FUNCTIONS
       THEN LET r == RunFunction(FUNCTIONS[button_id].script, FUNCTIONS[button_id].port,
                                 SHOW_DOLLAR)
            IN  /\ os_calls' = os_calls \o r.calls
                /\ children' = r.children
                /\ layout' = [layout EXCEPT !.output =
                                 [text |-> "Running",
                                  name |-> Title(ReplaceUnderscore(ButtonText[button_id]))]]
       ELSE /\ layout' = [layout EXCEPT !.output = [text |-> "Invalid action.", name |-> <<>>]]
            /\ UNCHANGED <<os_calls, children>>
    /\ UNCHANGED SHOW_DOLLAR
    /\ UNCHANGED <<vars, tvars, bvars>>

\* a launched script starts: a dashboard parses its command line (parse_args,
\* utils.py lines 29-39), sets its own SHOW_DOLLAR, frees its port and serves on
\* it; calculate_portfolio.py reads no argument and runs to its end
ChildStart(k) ==
    /\ k \in DOMAIN children
    /\ children[k].state = "pending"
    /\ children' =
         IF children[k].script \in Dashboards
         THEN [KillPort(children, children[k].port) EXCEPT
                  ![k].state = "running",
                  ![k].show_dollar = ParseShowDollar(children[k].value)]
         ELSE [children EXCEPT ![k].state = "exited"]
    /\ UNCHANGED <<SHOW_DOLLAR, n_clicks, layout, os_calls>>
    /\ UNCHANGED <<vars, tvars, bvars>>

LauncherNext ==
    \/ PageLoad
    \/ FlagClick
    \/ \E b \in DOMAIN FUNCTIONS : ScriptClick(b)
    \/ \E k \in 1..MaxLaunches : ChildStart(k)

---------------------------------------------------------------------------
(* The themes: get_colors and set_current_theme of utils.py *)

MaxThemeCalls == 3

\* THEMES, utils.py lines 233-269
THEMES ==
    [blue |-> [light |-> "#00a6fb", medium |-> "#0582ca", dark |-> "#006494",
               bold |-> "#003554", white |-> "#eef4ed"],
     purple |-> [light |-> "#be95c4", medium |-> "#9f86c0", dark |-> "#5e548e",
                 bold |-> "#231942", white |-> "#eef4ed"],
     green |-> [light |-> "#90a955", medium |-> "#4f772d", dark |-> "#31572c",
                bold |-> "#132a13", white |-> "#eef4ed"],
     red |-> [light |-> "#c9cba3", medium |-> "#e26d5c", dark |-> "#723d46",
              bold |-> "#472d30", white |-> "#eef4ed"],
     orange |-> [light |-> "#ffdd00", medium |-> "#ffc300", dark |-> "#ffa200",
                 bold |-> "#ff7b00", white |-> "#eef4ed"]]

FONT_FAMILY == "Arial, sans-serif"

\* f"1px solid {colour}"
Border(colour) == <<"1px solid ", colour>>

\* the names set_current_theme is called with
ThemeNames == DOMAIN THEMES \cup {"pink", "Blue", ""}

\* get_colors(theme_name): [raised, colors]
GetColors(theme_name) ==
    IF theme_name \in DOMAIN THEMES
    THEN [raised |-> FALSE, colors |-> THEMES[theme_name]]
    ELSE [raised |-> TRUE, colors |-> THEMES.blue]

\* the style dictionaries as utils.py lines 280-356 build them at import
InitialStyles(colors) ==
    [DEFAULT_STYLE |->
        [fontFamily |-> FONT_FAMILY, fontSize |-> "18px", backgroundColor |-> colors.dark,
         color |-> colors.white, margin |-> 0, padding |-> "12px", lineHeight |-> "1.6"],
     H1_STYLE |->
        [textAlign |-> "center", fontFamily |-> FONT_FAMILY, fontSize |-> "26px",
         marginBottom |-> "20px", marginTop |-> "10px", color |-> colors.white,
         lineHeight |-> "1.5"],
     H2_STYLE |->
        [textAlign |-> "center", fontFamily |-> FONT_FAMILY, fontWeight |-> "bold",
         fontSize |-> "22px", marginBottom |-> "10px", marginTop |-> "10px",
         color |-> colors.light, lineHeight |-> "1.4"],
     DIVIDER_STYLE |->
        [border |-> Border(colors.white), marginTop |-> "20px", marginBottom |-> "20px",
         color |-> colors.bold],
     TABLE_STYLE |->
        [width |-> "100%", margin |-> "auto", borderCollapse |-> "collapse",
         backgroundColor |-> colors.bold, color |-> colors.white,
         fontFamily |-> FONT_FAMILY, fontSize |-> "14px", lineHeight |-> "1.6"],
     TABLE_HEADER_STYLE |->
        [fontWeight |-> "bold", backgroundColor |-> colors.medium, color |-> colors.white,
         textAlign |-> "center", padding |-> "10px", border |-> Border(colors.light)],
     TABLE_ROW_STYLE |->
        [textAlign |-> "center", padding |-> "8px", border |-> Border(colors.light)],
     TABLE_SECTION_TITLE_STYLE |->
        [textAlign |-> "center", fontWeight |-> "bold", fontSize |-> "18px",
         marginBottom |-> "10px", marginTop |-> "10px", backgroundColor |-> colors.light,
         color |-> colors.white, padding |-> "10px"]]

\* the updates of set_current_theme without the one of TABLE_HEADER_STYLE's background
MutThemeUpdates(colors) ==
    [DEFAULT_STYLE |->
        [fontFamily |-> FONT_FAMILY, fontSize |-> "18px", backgroundColor |-> colors.dark,
         color |-> colors.white, margin |-> 0, padding |-> "12px", lineHeight |-> "1.6"],
     H1_STYLE |-> [color |-> colors.white],
     H2_STYLE |-> [color |-> colors.light],
     DIVIDER_STYLE |-> [border |-> Border(colors.white), color |-> colors.bold],
     TABLE_STYLE |-> [backgroundColor |-> colors.bold, color |-> colors.white],
     TABLE_HEADER_STYLE |-> [color |-> colors.white, border |-> Border(colors.light)],
     TABLE_ROW_STYLE |-> [border |-> Border(colors.light)],
     TABLE_SECTION_TITLE_STYLE |-> [backgroundColor |-> colors.light, color |-> colors.white]]

\* utils.py lines 79-114: the entries set_current_theme updates in each dictionary
ThemeUpdates(colors) ==
    [DEFAULT_STYLE |->
        [fontFamily |-> FONT_FAMILY, fontSize |-> "18px", backgroundColor |-> colors.dark,
         color |-> colors.white, margin |-> 0, padding |-> "12px", lineHeight |-> "1.6"],
     H1_STYLE |-> [color |-> colors.white],
     H2_STYLE |-> [color |-> colors.light],
     DIVIDER_STYLE |-> [border |-> Border(colors.white), color |-> colors.bold],
     TABLE_STYLE |-> [backgroundColor |-> colors.bold, color |-> colors.white],
     TABLE_HEADER_STYLE |->
        [backgroundColor |-> colors.medium, color |-> colors.white,
         border |-> Border(colors.light)],
     TABLE_ROW_STYLE |-> [border |-> Border(colors.light)],
     TABLE_SECTION_TITLE_STYLE |-> [backgroundColor |-> colors.light, color |-> colors.white]]

\* dict.update
Update(d, u) == [key \in DOMAIN d \cup DOMAIN u |-> IF key \in DOMAIN u THEN u[key] ELSE d[key]]

ThemeInit ==
    /\ current_theme = "blue"
    /\ DEFAULT_COLORS = GetColors("blue").colors
    /\ styles = InitialStyles(GetColors("blue").colors)
    /\ theme_calls = <<>>

\* utils.py lines 60-114: set_current_theme(theme_name)
SetCurrentTheme(theme_name) ==
    /\ Len(theme_calls) < MaxThemeCalls
    /\ IF theme_name \notin DOMAIN THEMES
       THEN /\ theme_calls' = Append(theme_calls, [theme_name |-> theme_name, raised |-> TRUE])
            /\ UNCHANGED <<current_theme, DEFAULT_COLORS, styles>>
       ELSE LET colors == GetColors(theme_name).colors
            IN  /\ theme_calls' = Append(theme_calls,
                                         [theme_name |-> theme_name, raised |-> FALSE])
                /\ current_theme' = theme_name
                /\ DEFAULT_COLORS' = colors
                /\ styles' = [s \in DOMAIN styles |->
                                 Update(styles[s], ThemeUpdates(colors)[s])]
    /\ UNCHANGED <<vars, lvars, bvars>>

ThemeNext == \E theme_name \in ThemeNames : SetCurrentTheme(theme_name)

---------------------------------------------------------------------------
(* The budget chart: visualize_budget of visualize_budget.py, lines 36-86 *)

MaxBudgetRows == 6

\* PIE_SCHEME, utils.py lines 226-230
PIE_SCHEME ==
    <<"#1f77b4", "#ff7f0e", "#2ca02c", "#d62728", "#9467bd", "#8c564b", "#e377c2",
      "#7f7f7f", "#bcbd22", "#17becf">>

\* the rows a budget file is made of: Category, Source, Amount
BudgetRows ==
    {[Category |-> <<"I","n","c","o","m","e">>, Source |-> "Salary", Amount |-> 3],
     [Category |-> <<"i","n","c","o","m","e">>, Source |-> "Gift", Amount |-> 1],
     [Category |-> <<"e","x","p","e","n","s","e","s">>, Source |-> "Rent", Amount |-> 2],
     [Category |-> <<"E","x","p","e","n","s","e","s">>, Source |-> "Gift", Amount |-> 1],
     [Category |-> <<"t","r","a","n","s","f","e","r">>, Source |-> "Bank", Amount |-> 1]}

BudgetFiles == SeqsUpTo(BudgetRows, MaxBudgetRows)

\* the file indices (0-based, as read_csv numbers the rows) of the rows of a category
IndicesOf(data, category) ==
    {k - 1 : k \in {j \in DOMAIN data : Lower(data[j].Category) = category}}

\* sort_values(by="Amount", ascending=False) on the rows with the indices in S:
\* the indices by descending amount, equal amounts in file order
RECURSIVE SortByAmount(_, _)
SortByAmount(data, S) ==
    IF S = {} THEN <<>>
    ELSE LET top == CHOOSE i \in S :
                        \A j \in S : \/ data[i + 1].Amount > data[j + 1].Amount
                                     \/ data[i + 1].Amount = data[j + 1].Amount /\ i <= j
         IN  <<top>> \o SortByAmount(data, S \ {top})

RECURSIVE SumAmounts(_, _)
SumAmounts(data, S) ==
    IF S = {} THEN 0
    ELSE LET i == CHOOSE j \in S : TRUE
         IN  data[i + 1].Amount + SumAmounts(data, S \ {i})

\* line 53: the length of PIE_SCHEME * ((len(income_data) + len(expenses_data)) // len(PIE_SCHEME) + 1)
CombinedLen(n_income, n_expenses) ==
    Len(PIE_SCHEME) * ((n_income + n_expenses) \div Len(PIE_SCHEME) + 1)

\* combined_colors[j] for j >= 0: [raised, color]
CombinedColor(j, length) ==
    IF j < length
    THEN [raised |-> FALSE, color |-> PIE_SCHEME[(j % Len(PIE_SCHEME)) + 1]]
    ELSE [raised |-> TRUE, color |-> ""]

\* lines 55-59: add_node(label), the node list after it and the index returned
AddNode(nodes, label) ==
    LET after == IF \E k \in DOMAIN nodes : nodes[k] = label THEN nodes
                 ELSE Append(nodes, label)
    IN  [nodes |-> after, idx |-> (CHOOSE k \in DOMAIN after : after[k] = label) - 1]

BudgetStart(data) ==
    [data |-> data, pc |-> "start", income_data |-> <<>>, expenses_data |-> <<>>,
     pos |-> 0, nodes |-> <<>>, links |-> <<>>, exception |-> ""]

BudgetInit == budget \in {BudgetStart(data) : data \in BudgetFiles}

\* the budget chart at rest, for the specifications of the other programs
BudgetIdle == budget = BudgetStart(<<>>)

\* lines 36-53: read the file, split and sort it, refuse a file without income or
\* without expenses
BudgetLoad ==
    /\ budget.pc = "start"
    /\ LET income == SortByAmount(budget.data, IndicesOf(budget.data, <<"i","n","c","o","m","e">>))
           expenses == SortByAmount(budget.data,
                                    IndicesOf(budget.data, <<"e","x","p","e","n","s","e","s">>))
       IN  budget' =
             IF Len(income) = 0 \/ Len(expenses) = 0
             THEN [budget EXCEPT !.pc = "raised", !.exception = "ValueError",
                                 !.income_data = income, !.expenses_data = expenses]
             ELSE [budget EXCEPT !.pc = "income", !.pos = 1,
                                 !.income_data = income, !.expenses_data = expenses]
    /\ UNCHANGED <<vars, lvars, tvars>>

\* lines 62-68: one iteration of the income loop
IncomeRow ==
    /\ budget.pc = "income"
    /\ LET i == budget.income_data[budget.pos]
           row == budget.data[i + 1]
           source == AddNode(budget.nodes, row.Source)
           target == AddNode(source.nodes, "Budget")
           c == CombinedColor(i, CombinedLen(Len(budget.income_data), Len(budget.expenses_data)))
           last == budget.pos = Len(budget.income_data)
       IN  budget' =
             IF c.raised
             THEN [budget EXCEPT !.pc = "raised", !.exception = "IndexError",
                                 !.nodes = target.nodes]
             ELSE [budget EXCEPT !.nodes = target.nodes,
                                 !.links = Append(@, [source |-> source.idx, target |-> target.idx,
                                                      value |-> row.Amount, color |-> c.color]),
                                 !.pos = IF last THEN 1 ELSE @ + 1,
                                 !.pc = IF last THEN "expenses" ELSE "income"]
    /\ UNCHANGED <<vars, lvars, tvars>>

\* lines 71-77: one iteration of the expenses loop
ExpenseRow ==
    /\ budget.pc = "expenses"
    /\ LET i == budget.expenses_data[budget.pos]
           row == budget.data[i + 1]
           source == AddNode(budget.nodes, "Budget")
           target == AddNode(source.nodes, row.Source)
           c == CombinedColor(Len(budget.income_data) + i,
                              CombinedLen(Len(budget.income_data), Len(budget.expenses_data)))
           last == budget.pos = Len(budget.expenses_data)
       IN  budget' =
             IF c.raised
             THEN [budget EXCEPT !.pc = "raised", !.exception = "IndexError",
                                 !.nodes = target.nodes]
             ELSE [budget EXCEPT !.nodes = target.nodes,
                                 !.links = Append(@, [source |-> source.idx, target |-> target.idx,
                                                      value |-> row.Amount, color |-> c.color]),
                                 !.pos = IF last THEN 0 ELSE @ + 1,
                                 !.pc = IF last THEN "savings" ELSE "expenses"]
    /\ UNCHANGED <<vars, lvars, tvars>>

\* lines 46-48 and 80-86: the savings link, when income exceeds expenses
SavingsLink ==
    /\ budget.pc = "savings"
    /\ LET savings == SumAmounts(budget.data, IndicesOf(budget.data, <<"i","n","c","o","m","e">>))
                      - SumAmounts(budget.data,
                                   IndicesOf(budget.data, <<"e","x","p","e","n","s","e","s">>))
           source == AddNode(budget.nodes, "Budget")
           target == AddNode(source.nodes, "Savings")
       IN  budget' =
             IF savings > 0
             THEN [budget EXCEPT !.pc = "done", !.nodes = target.nodes,
                                 !.links = Append(@, [source |-> source.idx, target |-> target.idx,
                                                      value |-> savings, color |-> "#197"])]
             ELSE [budget EXCEPT !.pc = "done"]
    /\ UNCHANGED <<vars, lvars, tvars>>

BudgetNext == BudgetLoad \/ IncomeRow \/ ExpenseRow \/ SavingsLink

---------------------------------------------------------------------------
(* The run *)

NoFrame == [cols |-> {}, rows |-> <<>>]

NoFile == [written |-> FALSE, cols |-> {}, rows |-> <<>>]

Init ==
    /\ input \in InputFiles
    /\ portfolio = NoFrame
    /\ pc = "start"
    /\ index = 0
    /\ total_value = Zero
    /\ now = NowStart
    /\ calls = <<>>
    /\ stdout = <<>>
    /\ outfile = NoFile
    /\ exception = ""
    /\ LauncherInit
    /\ ThemeInit
    /\ BudgetIdle

\* .fillna('').astype(str).str.lower() on one cell
LowerCell(c) == IF IsNa(c) THEN Val(<<>>) ELSE Val(Lower(c.v))

\* lines 73-79 on one row
Prepared(row) ==
    [c \in DOMAIN row \cup ComputedCols |->
        IF c \in {"Type", "Liquidity"} THEN LowerCell(row[c])
        ELSE IF c \in {"Current Price", "Value", "Gain/Loss"} THEN Zero
        ELSE IF c = "% Gain/Loss" THEN Percent(0)
        ELSE IF c = "Long-Term Hold" THEN ""
        ELSE row[c]]

\* lines 66-81: read the file (read_csv raises EmptyDataError on a file without
\* a header line), return on an empty frame, prepare the columns
Load ==
    /\ pc = "start"
    /\ IF input.cols = {}
       THEN /\ pc' = "raised"
            /\ exception' = "EmptyDataError"
            /\ UNCHANGED <<portfolio, index, stdout>>
       ELSE IF Len(input.rows) = 0
       THEN /\ pc' = "empty"
            /\ stdout' = Append(stdout, [text |-> "Portfolio is empty", row |-> 0])
            /\ UNCHANGED <<portfolio, index, exception>>
       ELSE IF ~({"Type", "Liquidity"} \subseteq input.cols)
       THEN /\ pc' = "raised"
            /\ exception' = "KeyError"
            /\ UNCHANGED <<portfolio, index, stdout>>
       ELSE /\ portfolio' = [cols |-> input.cols \cup ComputedCols,
                             rows |-> [i \in DOMAIN input.rows |-> Prepared(input.rows[i])]]
            /\ index' = 1
            /\ pc' = "loop"
            /\ UNCHANGED <<stdout, exception>>
    /\ total_value' = Zero
    /\ UNCHANGED <<input, now, calls, outfile>>
    /\ UNCHANGED <<lvars, tvars, bvars>>

\* the provider's possible answers to the row: all of them when the row's
\* iteration sends a request (whether it does depends on the row alone)
Answers(row, clock) ==
    IF ProcessRow(row, Unasked, clock).called THEN Responses ELSE {Unasked}

Said(msgs, i) == [k \in DOMAIN msgs |-> [text |-> msgs[k], row |-> i]]

\* lines 83-133: one iteration of the row loop; the last one saves the file
Iterate ==
    /\ pc = "loop"
    /\ index <= Len(portfolio.rows)
    /\ \E resp \in Answers(portfolio.rows[index], now) :
         LET r == ProcessRow(portfolio.rows[index], resp, now)
             last == index = Len(portfolio.rows)
             frame == IF r.kind = "enrich"
                      THEN [portfolio EXCEPT !.rows[index] = Enriched(@, r)]
                      ELSE portfolio
             said == stdout \o Said(r.msgs, index)
         IN  /\ calls' = IF r.called
                         THEN Append(calls, [row |-> index, request |-> r.request, resp |-> resp])
                         ELSE calls
             /\ IF r.kind = "raise"
                THEN /\ pc' = "raised"
                     /\ exception' = r.exc
                     /\ stdout' = said
                     /\ UNCHANGED <<portfolio, index, total_value, outfile>>
                ELSE /\ portfolio' = frame
                     /\ total_value' = IF r.kind = "enrich" THEN Add(total_value, r.value)
                                       ELSE total_value
                     /\ index' = index + 1
                     /\ exception' = ""
                     /\ IF last
                        THEN /\ outfile' = [written |-> TRUE, cols |-> frame.cols,
                                            rows |-> frame.rows]
                             /\ stdout' = Append(said, [text |-> "Portfolio saved", row |-> 0])
                             /\ pc' = "done"
                        ELSE /\ stdout' = said
                             /\ pc' = "loop"
                             /\ UNCHANGED outfile
    /\ UNCHANGED <<input, now>>
    /\ UNCHANGED <<lvars, tvars, bvars>>

\* the wall clock advances while the run is under way
Tick ==
    /\ pc \in {"start", "loop"}
    /\ now < NowStart + 12 * MaxTicks
    /\ now' = now + 12
    /\ UNCHANGED <<input, portfolio, pc, index, total_value, calls, stdout, outfile, exception>>
    /\ UNCHANGED <<lvars, tvars, bvars>>

Next == Load \/ Iterate \/ Tick

Spec == Init /\ [][Next]_vars

\* calculate_portfolio at rest, for the specifications of the other programs
PortfolioIdle ==
    /\ input = NoFrame
    /\ portfolio = NoFrame
    /\ pc = "start"
    /\ index = 0
    /\ total_value = Zero
    /\ now = NowStart
    /\ calls = <<>>
    /\ stdout = <<>>
    /\ outfile = NoFile
    /\ exception = ""

\* the launcher and the scripts it starts
LauncherSpecInit == PortfolioIdle /\ LauncherInit /\ ThemeInit /\ BudgetIdle

LauncherSpec == LauncherSpecInit /\ [][LauncherNext]_lvars

\* the theme switch of utils.py
ThemeSpecInit == PortfolioIdle /\ LauncherInit /\ ThemeInit /\ BudgetIdle

ThemeSpec == ThemeSpecInit /\ [][ThemeNext]_tvars

\* one run of visualize_budget
BudgetSpecInit == PortfolioIdle /\ LauncherInit /\ ThemeInit /\ BudgetInit

BudgetSpec == BudgetSpecInit /\ [][BudgetNext]_bvars

---------------------------------------------------------------------------
(* Vocabulary of the properties *)

Rows == DOMAIN portfolio.rows

Cell(i, col) == portfolio.rows[i][col]

\* the iteration of row i has run to its end (it did not raise)
Processed(i) == i \in Rows /\ i < index

\* row i passed the checks and had its five cells stored
IsEnriched(i) == Processed(i) /\ Cell(i, "Long-Term Hold") # ""

\* row i left the loop by a continue: its computed cells are as lines 75-79 set them
HasDefaults(row) ==
    /\ row["Current Price"] = Val(0)
    /\ row["Value"] = Val(0)
    /\ row["Gain/Loss"] = Val(0)
    /\ row["% Gain/Loss"] = Val(<<0, 1>>)
    /\ row["Long-Term Hold"] = ""

HasRequired(i) ==
    /\ ~Cell(i, "Ticker").na
    /\ ~Cell(i, "Quantity").na
    /\ Cell(i, "Type").v # <<>>

TypeOf(i) == Cell(i, "Type").v

FixedUnit == {<<"c","a","s","h">>, <<"4","0","1","k">>, <<"h","s","a">>, <<"e","s","p","p">>}

Quoted == {<<"s","t","o","c","k">>, <<"e","t","f">>, <<"c","r","y","p","t","o">>}

\* a step of the row loop: an iteration moves index or ends the run
IterStep == pc = "loop" /\ <<pc, index>>' # <<pc, index>>

Printed(text, i) == \E k \in DOMAIN stdout : stdout[k] = [text |-> text, row |-> i]

\* the response holds a numeric price where the request of that function looks for it
HoldsPrice(resp, function) ==
    LET k1 == IF function = "GLOBAL_QUOTE" THEN "Global Quote"
              ELSE "Realtime Currency Exchange Rate"
        k2 == IF function = "GLOBAL_QUOTE" THEN "05. price" ELSE "5. Exchange Rate"
    IN  /\ resp.kind = "body"
        /\ resp.json
        /\ resp.data.t = "dict"
        /\ k1 \in DOMAIN resp.data.m
        /\ resp.data.m[k1].t = "dict"
        /\ k2 \in DOMAIN resp.data.m[k1].m
        /\ resp.data.m[k1].m[k2].t = "str"
        /\ Len(resp.data.m[k1].m[k2].s) > 0
        /\ \A i \in DOMAIN resp.data.m[k1].m[k2].s :
               resp.data.m[k1].m[k2].s[i] \in {"0","1","2","3","4","5","6","7","8","9"}

---------------------------------------------------------------------------
(* C1 *)

\* C1: whenever the provider fails on a stock, etf or crypto row (network error,
\* non-JSON or malformed body, price field missing or not numeric), the run does
\* not raise and the row is enriched with Current Price 0 and Value 0.  Stated for
\* rows of quantity at least 1.
C1_FailureGivesZero ==
    \A k \in DOMAIN calls :
        LET c == calls[k]
        IN  (~HoldsPrice(c.resp, c.request.function) /\ GtZero(Cell(c.row, "Quantity")))
            => /\ pc # "raised"
               /\ IsEnriched(c.row)
               /\ Cell(c.row, "Current Price") = Val(0)
               /\ Cell(c.row, "Value") = Val(0)

(* C2 *)

\* C2: a run over a non-empty input ends with the output file written: the only
\* run that ends without writing it is the run over an empty input.  Stated for
\* inputs that have every column the code reads and rows of quantity at least 1.
C2_OnlyEmptyInputAborts ==
    (/\ pc \in {"done", "empty", "raised"}
     /\ ~outfile.written
     /\ "Liquidity" \in input.cols
     /\ \A i \in DOMAIN input.rows : GtZero(input.rows[i]["Quantity"]))
    => Len(input.rows) = 0

(* C3 *)

RequiredMissing(row) == row["Ticker"].na \/ row["Type"].na \/ row["Quantity"].na

\* C3 as stated: no row written to the output file is a row whose Ticker, Type
\* or Quantity is missing (a missing Type is written as the empty text).
C3_MissingRowsNotWritten ==
    outfile.written =>
        \A j \in DOMAIN outfile.rows :
            /\ ~outfile.rows[j]["Ticker"].na
            /\ ~outfile.rows[j]["Quantity"].na
            /\ outfile.rows[j]["Type"].v # <<>>

\* C3 amended: the iteration of a row whose Ticker, Type or Quantity is missing
\* sends no request, leaves total_value and the frame as they are (the row keeps
\* Current Price 0, Value 0, Gain/Loss 0, % Gain/Loss 0 and an empty Long-Term
\* Hold), does not raise and goes on to the next row; the row is written to the
\* output file with those initial values.
C3_MissingRowKeptWithDefaults ==
    [][(IterStep /\ RequiredMissing(input.rows[index]))
       => /\ pc' # "raised"
          /\ exception' = ""
          /\ index' = index + 1
          /\ total_value' = total_value
          /\ calls' = calls
          /\ portfolio' = portfolio
          /\ HasDefaults(portfolio.rows[index])
          /\ (index < Len(portfolio.rows) => pc' = "loop")
          /\ (index = Len(portfolio.rows)
              => /\ pc' = "done"
                 /\ outfile'.written
                 /\ Len(outfile'.rows) = Len(input.rows)
                 /\ \A i \in DOMAIN input.rows :
                        RequiredMissing(input.rows[i]) => HasDefaults(outfile'.rows[i]))]_vars

\* a row without quantity was skipped, the cash row after it was enriched, and both were written
C3_Witness ==
    /\ pc = "done"
    /\ Len(input.rows) = 2
    /\ input.rows[1]["Quantity"].na
    /\ ~input.rows[1]["Ticker"].na
    /\ HasDefaults(outfile.rows[1])
    /\ TypeOf(2) = <<"c","a","s","h">>
    /\ outfile.rows[2]["Value"] = Val(1)
    /\ total_value = Val(1)

(* C4 *)

\* C4: the iteration of a row whose lower-cased Type is none of cash, 401k, hsa,
\* espp, stock, etf, crypto sends no request, adds nothing to total_value, stores
\* nothing in the row, does not raise and goes on to the next row; when the row
\* has its ticker and quantity, get_price was asked and reported the type.
C4_UnsupportedTypeSkipped ==
    [][(IterStep /\ TypeOf(index) \notin (FixedUnit \cup Quoted))
       => /\ calls' = calls
          /\ total_value' = total_value
          /\ portfolio' = portfolio
          /\ HasDefaults(portfolio.rows[index])
          /\ pc' # "raised"
          /\ index' = index + 1
          /\ (index < Len(portfolio.rows) => pc' = "loop")
          /\ ((~Cell(index, "Ticker").na /\ ~Cell(index, "Quantity").na)
              => \E k \in DOMAIN stdout' :
                    stdout'[k] = [text |-> "Unsupported asset type", row |-> index])]_vars

\* a bond row with ticker and quantity was skipped and the cash row after it enriched
C4_Witness ==
    /\ pc = "done"
    /\ Len(input.rows) = 2
    /\ TypeOf(1) = <<"b","o","n","d">>
    /\ HasRequired(1)
    /\ Printed("Unsupported asset type", 1)
    /\ HasDefaults(outfile.rows[1])
    /\ calls = <<>>
    /\ TypeOf(2) = <<"c","a","s","h">>
    /\ IsEnriched(2)
    /\ total_value = Cell(2, "Value")

(* C5 *)

\* C5: no request to the provider is ever made for a row of type cash, 401k, hsa
\* or espp, and every such row that has its ticker and quantity is enriched with
\* Current Price exactly 1.
C5_FixedUnitPriceOne ==
    \A i \in Rows :
        TypeOf(i) \in FixedUnit
        => /\ \A k \in DOMAIN calls : calls[k].row # i
           /\ (Processed(i) /\ HasRequired(i))
              => (IsEnriched(i) /\ Cell(i, "Current Price") = Val(1))

\* an espp row was enriched at price 1 and no request was ever sent
C5_Witness ==
    /\ pc = "done"
    /\ Len(input.rows) = 1
    /\ TypeOf(1) = <<"e","s","p","p">>
    /\ IsEnriched(1)
    /\ Cell(1, "Current Price") = Val(1)
    /\ Cell(1, "Value") = Val(5)
    /\ calls = <<>>

(* C6 *)

\* C6: when a row is enriched and its purchase date parses as YYYY-MM-DD, the
\* Long-Term Hold stored is "Green" exactly when the whole days from the date to
\* the clock, over 365, exceed LONG_TERM_HOLD_YEARS, that is when at least
\* 365 * LONG_TERM_HOLD_YEARS + 1 whole days have passed, and "Red" otherwise
\* (a date 730 days old or in the future is "Red", 731 days old is "Green").
C6_HoldStatusThreshold ==
    [][(/\ IterStep
        /\ index' = index + 1
        /\ portfolio'.rows[index]["Long-Term Hold"] # ""
        /\ "Purchase Date" \in DOMAIN input.rows[index]
        /\ ~input.rows[index]["Purchase Date"].na
        /\ Strptime(input.rows[index]["Purchase Date"].v).ok)
       => LET day == Strptime(input.rows[index]["Purchase Date"].v).day
          IN  portfolio'.rows[index]["Long-Term Hold"] =
                 IF now - 24 * day >= 24 * (365 * LONG_TERM_HOLD_YEARS + 1)
                 THEN "Green" ELSE "Red"]_vars

\* a row bought exactly 730 days before the day of the run was stored as "Red"
C6_Witness ==
    /\ pc = "done"
    /\ now = NowStart
    /\ Len(input.rows) = 1
    /\ "Purchase Date" \in input.cols
    /\ input.rows[1]["Purchase Date"] = Val(DateText(2022, 3, 2))
    /\ DayNumber(2024, 3, 1) - DayNumber(2022, 3, 2) = 730
    /\ IsEnriched(1)
    /\ Cell(1, "Long-Term Hold") = "Red"

(* C7 *)

NoDatePresent(i) ==
    "Purchase Date" \notin input.cols \/ input.rows[i]["Purchase Date"].na

\* C7: an enriched row has Long-Term Hold "No Date" when no purchase date is
\* present (empty cell, or no Purchase Date column in the file) and "Invalid
\* Date" when one is present that does not parse; such a row of a supported
\* type with its required fields is enriched, not skipped.
C7_NoDateAndInvalidDate ==
    \A i \in Rows :
        /\ IsEnriched(i)
           => /\ NoDatePresent(i) => Cell(i, "Long-Term Hold") = "No Date"
              /\ (~NoDatePresent(i) /\ ~Strptime(input.rows[i]["Purchase Date"].v).ok)
                 => Cell(i, "Long-Term Hold") = "Invalid Date"
        /\ (Processed(i) /\ HasRequired(i) /\ TypeOf(i) \in FixedUnit) => IsEnriched(i)

(* C8 *)

\* C8: every cash row with its ticker and quantity is enriched with Current
\* Price 1, Value equal to its quantity, Gain/Loss 0 and % Gain/Loss 0,
\* whatever its cost basis (positive, zero, negative, empty or no such column).
C8_CashRow ==
    \A i \in Rows :
        (Processed(i) /\ HasRequired(i) /\ TypeOf(i) = <<"c","a","s","h">>)
        => /\ IsEnriched(i)
           /\ Cell(i, "Current Price") = Val(1)
           /\ Cell(i, "Value") = input.rows[i]["Quantity"]
           /\ Cell(i, "Gain/Loss") = Val(0)
           /\ Cell(i, "% Gain/Loss") = Val(<<0, 1>>)

\* a cash row of quantity 5 and a negative cost basis was enriched
C8_Witness ==
    /\ pc = "done"
    /\ Len(input.rows) = 1
    /\ TypeOf(1) = <<"c","a","s","h">>
    /\ "Cost Basis" \in input.cols
    /\ input.rows[1]["Cost Basis"] = Val(-1)
    /\ input.rows[1]["Quantity"] = Val(5)
    /\ Cell(1, "Value") = Val(5)
    /\ Cell(1, "Gain/Loss") = Val(0)
    /\ IsEnriched(1)

(* C9 *)

\* the cost basis of row i is greater than 0
PositiveBasis(i) ==
    /\ "Cost Basis" \in input.cols
    /\ ~input.rows[i]["Cost Basis"].na
    /\ input.rows[i]["Cost Basis"].v > 0

\* the cost basis of row i is zero or absent
NoBasis(i) ==
    \/ "Cost Basis" \notin input.cols
    \/ input.rows[i]["Cost Basis"].na
    \/ input.rows[i]["Cost Basis"].v = 0

\* the fraction f equals n / d * 100
IsPercentOf(f, n, d) == f[2] > 0 /\ f[1] * d = n * 100 * f[2]

\* C9: every enriched stock, etf, crypto or espp row, with P its Current Price
\* and Q its quantity, has Value P*Q; with a cost basis c > 0 its Gain/Loss is
\* P*Q - c*Q and its % Gain/Loss is that over c*Q times 100; with a cost basis
\* zero or absent its Gain/Loss is its Value and its % Gain/Loss is 100.  P is
\* 1 for espp and, for the others, the number in the price field of the
\* provider's response, or 0 when the response holds none.
C9_QuotedRow ==
    \A i \in Rows :
        (IsEnriched(i) /\ TypeOf(i) \in (Quoted \cup {<<"e","s","p","p">>}))
        => LET P == Cell(i, "Current Price").v
               Q == Cell(i, "Quantity").v
               c == input.rows[i]["Cost Basis"].v
           IN  /\ Cell(i, "Value") = Val(P * Q)
               /\ PositiveBasis(i)
                  => /\ Cell(i, "Gain/Loss") = Val(P * Q - c * Q)
                     /\ ~Cell(i, "% Gain/Loss").na
                     /\ IsPercentOf(Cell(i, "% Gain/Loss").v, P * Q - c * Q, c * Q)
               /\ NoBasis(i)
                  => /\ Cell(i, "Gain/Loss") = Val(P * Q)
                     /\ Cell(i, "% Gain/Loss") = Val(<<100, 1>>)
               /\ TypeOf(i) = <<"e","s","p","p">> => P = 1
               /\ TypeOf(i) \in Quoted
                  => \E k \in DOMAIN calls :
                        /\ calls[k].row = i
                        /\ IF HoldsPrice(calls[k].resp, calls[k].request.function)
                           THEN \E t \in {"Global Quote", "Realtime Currency Exchange Rate"},
                                   u \in {"05. price", "5. Exchange Rate"} :
                                   /\ t \in DOMAIN calls[k].resp.data.m
                                   /\ u \in DOMAIN calls[k].resp.data.m[t].m
                                   /\ calls[k].resp.data.m[t].m[u].s = NatStr(P)
                           ELSE P = 0

\* a stock row of quantity 2 and cost basis 3 was quoted at 1: value 2, loss 4, -66.7 %
C9_Witness ==
    /\ pc = "done"
    /\ Len(input.rows) = 1
    /\ TypeOf(1) = <<"s","t","o","c","k">>
    /\ IsEnriched(1)
    /\ PositiveBasis(1)
    /\ input.rows[1]["Cost Basis"] = Val(3)
    /\ Cell(1, "Quantity") = Val(2)
    /\ Cell(1, "Current Price") = Val(1)
    /\ Cell(1, "Value") = Val(2)
    /\ Cell(1, "Gain/Loss") = Val(-4)
    /\ Cell(1, "% Gain/Loss") = Val(<<-200, 3>>)

(* C10 *)

\* C10: every enriched 401k or hsa row of quantity Q has Value Q; with a cost
\* basis c its Gain/Loss is Q - c, the cost basis taken as a total (NaN when the
\* cell is empty, Q when the file has no such column), and its % Gain/Loss is
\* (Q - c) / c * 100 when c > 0 and 100 otherwise; cost basis 100 and quantity 5
\* give Value 5, Gain/Loss -95 and % Gain/Loss -95.
C10_AccountRow ==
    \A i \in Rows :
        (IsEnriched(i) /\ TypeOf(i) \in {<<"4","0","1","k">>, <<"h","s","a">>})
        => LET Q == Cell(i, "Quantity").v
               c == input.rows[i]["Cost Basis"]
           IN  /\ Cell(i, "Current Price") = Val(1)
               /\ Cell(i, "Value") = Val(Q)
               /\ "Cost Basis" \notin input.cols
                  => /\ Cell(i, "Gain/Loss") = Val(Q)
                     /\ Cell(i, "% Gain/Loss") = Val(<<100, 1>>)
               /\ ("Cost Basis" \in input.cols /\ c.na)
                  => /\ Cell(i, "Gain/Loss").na
                     /\ Cell(i, "% Gain/Loss") = Val(<<100, 1>>)
               /\ ("Cost Basis" \in input.cols /\ ~c.na)
                  => /\ Cell(i, "Gain/Loss") = Val(Q - c.v)
                     /\ c.v > 0 => IsPercentOf(Cell(i, "% Gain/Loss").v, Q - c.v, c.v)
                     /\ c.v <= 0 => Cell(i, "% Gain/Loss") = Val(<<100, 1>>)
                     /\ (c.v = 100 /\ Q = 5)
                        => /\ Cell(i, "Gain/Loss") = Val(-95)
                           /\ Cell(i, "% Gain/Loss") = Val(<<-95, 1>>)

\* a 401k row of quantity 5 and cost basis 100 was enriched: value 5, loss 95, -95 %
C10_Witness ==
    /\ pc = "done"
    /\ Len(input.rows) = 1
    /\ TypeOf(1) = <<"4","0","1","k">>
    /\ IsEnriched(1)
    /\ "Cost Basis" \in input.cols
    /\ input.rows[1]["Cost Basis"] = Val(100)
    /\ Cell(1, "Quantity") = Val(5)
    /\ Cell(1, "Value") = Val(5)
    /\ Cell(1, "Gain/Loss") = Val(-95)
    /\ Cell(1, "% Gain/Loss") = Val(<<-95, 1>>)

(* C11 *)

\* the provider's answer to the request sent for row i, Unasked when none was sent
RespOf(i) ==
    IF \E k \in DOMAIN calls : calls[k].row = i
    THEN calls[CHOOSE k \in DOMAIN calls : calls[k].row = i].resp
    ELSE Unasked

\* C11: an enriched row whose Cost Basis cell is empty has the Value, Gain/Loss
\* and % Gain/Loss that the same row with Cost Basis 0 and the same provider
\* response gets, whatever its type.
C11_AbsentBasisAsZero ==
    \A i \in Rows :
        (IsEnriched(i) /\ "Cost Basis" \in input.cols /\ input.rows[i]["Cost Basis"].na)
        => LET z == ProcessRow([portfolio.rows[i] EXCEPT !["Cost Basis"] = Val(0)],
                               RespOf(i), now)
           IN  /\ z.kind = "enrich"
               /\ z.value = Cell(i, "Value")
               /\ z.gain = Cell(i, "Gain/Loss")
               /\ z.pct = Cell(i, "% Gain/Loss")

(* C12 *)

RECURSIVE SumValues(_, _)
\* the sum of the Value cells of the enriched rows among the first n of rows
SumValues(rows, n) ==
    IF n = 0 THEN 0
    ELSE SumValues(rows, n - 1)
         + (IF rows[n]["Long-Term Hold"] # "" THEN rows[n]["Value"].v ELSE 0)

\* C12: at every point of the row loop and after it, total_value is the sum of
\* Value over the rows processed so far that were enriched; a row skipped for a
\* missing field or an unsupported type keeps Value 0 and adds nothing.
C12_TotalIsSumOfEnriched ==
    (pc \in {"loop", "done", "raised"} /\ index >= 1)
    => /\ total_value = Val(SumValues(portfolio.rows, index - 1))
       /\ \A i \in Rows : (Processed(i) /\ ~IsEnriched(i)) => Cell(i, "Value") = Val(0)

\* a cash row worth 1 and a stock row quoted at 2 were enriched: the total is 3
C12_Witness ==
    /\ pc = "done"
    /\ Len(input.rows) = 2
    /\ TypeOf(1) = <<"c","a","s","h">>
    /\ TypeOf(2) = <<"s","t","o","c","k">>
    /\ Cell(1, "Value") = Val(1)
    /\ Cell(2, "Value") = Val(2)
    /\ total_value = Val(3)

---------------------------------------------------------------------------
(* C13 *)

\* the output file has something besides the frame's own columns, where a
\* total could stand
WritesTotal == \E c \in outfile.cols : c \notin input.cols \cup ComputedCols

\* C13: when a run over non-empty input completes, the output file holds the
\* surviving enriched rows only (no skipped row) together with the computed
\* total_value.
C13_EnrichedRowsAndTotalWritten ==
    pc = "done"
    => /\ outfile.written
       /\ \A i \in DOMAIN outfile.rows : outfile.rows[i]["Long-Term Hold"] # ""
       /\ WritesTotal

RECURSIVE SumColumn(_, _, _)
SumColumn(rows, col, n) ==
    IF n = 0 THEN 0 ELSE SumColumn(rows, col, n - 1) + rows[n][col].v

\* C13 as the code has it: when a run over non-empty input completes, the output
\* file holds every row of the input in input order, skipped rows with the
\* default computed cells and enriched rows with their computed cells, under the
\* input's columns and the five computed columns and nothing else; total_value
\* is not written, and it equals the sum of the written Value column.
C13_WholeFrameWritten ==
    pc = "done"
    => /\ outfile.written
       /\ Len(input.rows) > 0
       /\ outfile.cols = input.cols \cup ComputedCols
       /\ ~WritesTotal
       /\ Len(outfile.rows) = Len(input.rows)
       /\ \A i \in DOMAIN outfile.rows :
            /\ DOMAIN outfile.rows[i] = outfile.cols
            /\ \A c \in input.cols \ {"Type", "Liquidity"} :
                 outfile.rows[i][c] = input.rows[i][c]
            /\ outfile.rows[i] = portfolio.rows[i]
            /\ HasDefaults(outfile.rows[i]) \/ outfile.rows[i]["Long-Term Hold"] # ""
            /\ RequiredMissing(input.rows[i]) => HasDefaults(outfile.rows[i])
       /\ total_value = Val(SumColumn(outfile.rows, "Value", Len(outfile.rows)))

C13_Witness ==
    /\ pc = "done"
    /\ Len(outfile.rows) = 2
    /\ input.rows[1]["Quantity"].na
    /\ HasDefaults(outfile.rows[1])
    /\ outfile.rows[2]["Long-Term Hold"] # ""
    /\ outfile.rows[2]["Value"] = Val(2)
    /\ total_value = Val(2)

---------------------------------------------------------------------------
(* C14 *)

\* the values of now a run may see
Clocks == {NowStart + 12 * k : k \in 0..MaxTicks}

\* an input row with a ticker, a supported type and a quantity
ValidRow(row) ==
    /\ ~row["Ticker"].na
    /\ ~row["Quantity"].na
    /\ ~row["Type"].na
    /\ Lower(row["Type"].v) \in FixedUnit \cup Quoted

\* the output row is the input row with the five cells computed from it
ComputedFrom(out, row, resp) ==
    \E clock \in Clocks :
        LET r == ProcessRow(Prepared(row), resp, clock)
        IN  r.kind = "enrich" /\ out = Enriched(Prepared(row), r)

\* C14: once a run over non-empty input has ended, every input row with a
\* present ticker, a supported type and a present quantity has exactly one row
\* in the output file, at the same position as in the input, carrying the five
\* cells computed from that row; and no output row carries computed cells
\* without having passed those checks.
C14_ValidRowsEnrichedInOrder ==
    (pc \in {"done", "raised"} /\ Len(input.rows) > 0)
    => /\ \A i \in DOMAIN input.rows :
            ValidRow(input.rows[i])
            => /\ outfile.written
               /\ Len(outfile.rows) = Len(input.rows)
               /\ ComputedFrom(outfile.rows[i], input.rows[i], RespOf(i))
       /\ \A i \in DOMAIN outfile.rows :
            outfile.rows[i]["Long-Term Hold"] # "" => ValidRow(input.rows[i])

---------------------------------------------------------------------------
(* C15 *)

\* C15: when the input holds no rows, the run reports a diagnostic, returns
\* normally without raising, makes no provider call and writes no output file.
C15_EmptyInputReported ==
    (Len(input.rows) = 0 /\ pc # "start")
    => /\ pc = "empty"
       /\ exception = ""
       /\ Printed("Portfolio is empty", 0)
       /\ calls = <<>>
       /\ ~outfile.written

---------------------------------------------------------------------------
(* C16 *)

\* C16: a cash, 401k, hsa or espp row with no ticker but with type and quantity
\* present is still enriched, with value = quantity at price 1, and so counted
\* in total_value; a missing ticker skips a row only for the quoted types.
C16_CashLikeNeedsNoTicker ==
    \A i \in Rows :
        (Processed(i) /\ Cell(i, "Ticker").na /\ ~Cell(i, "Quantity").na
            /\ TypeOf(i) \in FixedUnit)
        => /\ IsEnriched(i)
           /\ Cell(i, "Current Price") = Val(1)
           /\ Cell(i, "Value") = Cell(i, "Quantity")

---------------------------------------------------------------------------
(* C18 *)

\* row out is what input row row gives by itself, with the response resp and
\* one reading of the clock: its own cells passed through, and the five
\* computed cells of its own iteration (the defaults when it is skipped)
RowLocal(out, row, resp) ==
    \E clock \in Clocks :
        LET r == ProcessRow(Prepared(row), resp, clock)
        IN  /\ r.kind # "raise"
            /\ \A c \in DOMAIN row : out[c] = Prepared(row)[c]
            /\ IF r.kind = "enrich"
               THEN /\ out["Current Price"] = Val(r.price)
                    /\ out["Value"] = r.value
                    /\ out["Gain/Loss"] = r.gain
                    /\ out["% Gain/Loss"] = r.pct
                    /\ out["Long-Term Hold"] = r.hold
               ELSE HasDefaults(out)

\* C18: the cells of row i after its iteration, and the row written for it,
\* depend only on input row i, its provider response and now, whatever the
\* other rows are (skipped, quoted at 0, enriched) and whatever was accumulated
\* before.
C18_RowDependsOnItselfOnly ==
    /\ \A i \in Rows : Processed(i) => RowLocal(portfolio.rows[i], input.rows[i], RespOf(i))
    /\ pc = "done"
       => \A i \in DOMAIN outfile.rows :
              RowLocal(outfile.rows[i], input.rows[i], RespOf(i))

C18_Witness ==
    /\ pc = "done"
    /\ Len(outfile.rows) = 2
    /\ TypeOf(1) = <<"s","t","o","c","k">>
    /\ RespOf(1).data = EmptyDict
    /\ outfile.rows[1]["Long-Term Hold"] # ""
    /\ outfile.rows[1]["Value"] = Val(0)
    /\ TypeOf(2) = <<"c","a","s","h">>
    /\ outfile.rows[2]["Value"] = Val(1)

---------------------------------------------------------------------------
(* C19 *)

\* the request that the row's type and ticker call for
RequestOf(i) ==
    IF TypeOf(i) = <<"c","r","y","p","t","o">>
    THEN [function |-> "CURRENCY_EXCHANGE_RATE", symbol |-> Upper(Cell(i, "Ticker").v)]
    ELSE [function |-> "GLOBAL_QUOTE", symbol |-> Cell(i, "Ticker").v]

\* C19: provider calls go out one at a time in input row order: each call is
\* for a stock, etf or crypto row that passed the required-field check, no row
\* is asked about twice, the call of a row is made before any later row is
\* examined, every such row that has been examined has its call, and skipped
\* and fixed-unit rows have none.
C19_CallsInRowOrder ==
    /\ \A k \in DOMAIN calls :
        /\ calls[k].row \in Rows
        /\ calls[k].row <= index
        /\ calls[k].row = index => pc = "raised"
        /\ HasRequired(calls[k].row)
        /\ TypeOf(calls[k].row) \in Quoted
        /\ calls[k].request = RequestOf(calls[k].row)
    /\ \A k, l \in DOMAIN calls : k < l => calls[k].row < calls[l].row
    /\ \A i \in Rows :
        (Processed(i) /\ HasRequired(i) /\ TypeOf(i) \in Quoted)
        => \E k \in DOMAIN calls : calls[k].row = i

C19_Witness ==
    /\ pc = "done"
    /\ Len(input.rows) = 2
    /\ Len(calls) = 2
    /\ calls[1].row = 1
    /\ calls[2].row = 2
    /\ calls[2].request.function = "GLOBAL_QUOTE"

---------------------------------------------------------------------------
(* C20 *)

\* the input type of row i is spelled mixed and is the type low in lower case
SpelledAs(i, mixed, low) ==
    /\ input.rows[i]["Type"] = Val(mixed)
    /\ Len(mixed) = Len(low)
    /\ mixed # low

\* row i of the frame is what the same input row with the type spelled low gives
SameAsSpelled(i, low) ==
    RowLocal(portfolio.rows[i], [input.rows[i] EXCEPT !["Type"] = Val(low)], RespOf(i))

\* C20: asset-type matching is case-insensitive: a row whose Type is spelled
\* "Cash" or "STOCK" takes the branch of "cash" or "stock" (price 1 and no
\* call; one GLOBAL_QUOTE call) and gets the same price, value, gain/loss and
\* percentage as the same row spelled in lower case.
C20_TypeCaseInsensitive ==
    \A i \in Rows :
        /\ (Processed(i) /\ SpelledAs(i, <<"C","a","s","h">>, <<"c","a","s","h">>))
           => /\ SameAsSpelled(i, <<"c","a","s","h">>)
              /\ \A k \in DOMAIN calls : calls[k].row # i
              /\ HasRequired(i) => IsEnriched(i) /\ Cell(i, "Current Price") = Val(1)
        /\ (Processed(i) /\ SpelledAs(i, <<"S","T","O","C","K">>, <<"s","t","o","c","k">>))
           => /\ SameAsSpelled(i, <<"s","t","o","c","k">>)
              /\ HasRequired(i)
                 => /\ IsEnriched(i)
                    /\ \E k \in DOMAIN calls :
                         /\ calls[k].row = i
                         /\ calls[k].request.function = "GLOBAL_QUOTE"

C20_Witness ==
    /\ pc = "done"
    /\ SpelledAs(1, <<"S","T","O","C","K">>, <<"s","t","o","c","k">>)
    /\ Cell(1, "Quantity") = Val(2)
    /\ Cell(1, "Current Price") = Val(2)
    /\ Cell(1, "Value") = Val(4)
    /\ Len(calls) = 1

---------------------------------------------------------------------------
(* C21 *)

\* C21: in the launcher, after any sequence of feature-flag clicks SHOW_DOLLAR is
\* True exactly when the click count is even (True before any click), and the
\* label and the button text shown agree with it: "Balance Visible" and "Hide"
\* when True, "Balance Hidden" and "Show" when False.
C21_FlagFollowsParity ==
    /\ SHOW_DOLLAR = (n_clicks[FlagButton] % 2 = 0)
    /\ layout.loaded
       => IF SHOW_DOLLAR
          THEN /\ layout.feature_flag_label = "Balance Visible"
               /\ layout.feature_flag_button = "Hide"
          ELSE /\ layout.feature_flag_label = "Balance Hidden"
               /\ layout.feature_flag_button = "Show"

C21_Witness ==
    /\ n_clicks[FlagButton] = 3
    /\ ~SHOW_DOLLAR
    /\ layout.feature_flag_label = "Balance Hidden"
    /\ layout.feature_flag_button = "Show"
    /\ Len(children) > 0

---------------------------------------------------------------------------
(* C22 *)

\* the launches so far: every child was passed the text of a flag value, a
\* dashboard that has started holds that value as its show_dollar, the launcher's
\* calls after the first are pairs kill_port(port), os.system(script) of one
\* entry of FUNCTIONS, one pair per click on that entry's button, and no two
\* processes serve on one port
LaunchesInOrder ==
    /\ Len(os_calls) = 1 + 2 * Len(children)
    /\ \A k \in DOMAIN children :
        LET c == children[k]
        IN  /\ c.value = IF c.passed THEN <<"T","r","u","e">> ELSE <<"F","a","l","s","e">>
            /\ (c.script \in Dashboards /\ c.state \in {"running", "killed"})
               => c.show_dollar = c.passed
            /\ \E b \in DOMAIN FUNCTIONS :
                 /\ FUNCTIONS[b].script = c.script
                 /\ FUNCTIONS[b].port = c.port
            /\ os_calls[2 * k] = [op |-> "kill_port", port |-> c.port, script |-> "",
                                  value |-> <<>>]
            /\ os_calls[2 * k + 1] = [op |-> "os.system", port |-> c.port,
                                      script |-> c.script, value |-> c.value]
    /\ \A b \in DOMAIN FUNCTIONS :
        n_clicks[b] = Cardinality({k \in DOMAIN children :
                                      children[k].script = FUNCTIONS[b].script})
    /\ \A k, l \in DOMAIN children :
        (k < l /\ children[k].state = "running" /\ children[l].state = "running")
        => children[k].port # children[l].port

\* a click on a script button: the child launched is the script of the button
\* clicked, it is passed the launcher's SHOW_DOLLAR of that moment, and whatever
\* served on the script's port has been killed
ClickLaunches ==
    Len(children') # Len(children)
    => /\ Len(children') = Len(children) + 1
       /\ LET c == children'[Len(children')]
          IN  /\ c.passed = SHOW_DOLLAR
              /\ c.state = "pending"
              /\ \E b \in DOMAIN FUNCTIONS :
                   /\ n_clicks'[b] = n_clicks[b] + 1
                   /\ c.script = FUNCTIONS[b].script
              /\ \A k \in DOMAIN children' :
                   children'[k].port = c.port => children'[k].state # "running"

\* C22: for any interleaving of flag toggles and script-button clicks, the
\* show_dollar a launched script parses from its command line is the launcher's
\* SHOW_DOLLAR at the moment of the click (str(True)/str(False) come back from
\* parse_args as True/False), and each click on a known button first kills the
\* process on that script's port and then launches exactly that script.
C22_ChildGetsFlagOfClick == []LaunchesInOrder /\ [][ClickLaunches]_lvars

C22_Witness ==
    /\ SHOW_DOLLAR
    /\ n_clicks[FlagButton] = 2
    /\ \E k \in DOMAIN children :
        /\ children[k].script = "visualize_budget.py"
        /\ children[k].state = "running"
        /\ ~children[k].passed
        /\ ~children[k].show_dollar

---------------------------------------------------------------------------
(* C23 *)

\* the theme of the last call with a name of THEMES, "blue" when there is none
LastThemeSet ==
    LET known == {"blue", "purple", "green", "red", "orange"}
        valid == {k \in DOMAIN theme_calls : theme_calls[k].theme_name \in known}
    IN  IF valid = {} THEN "blue"
        ELSE theme_calls[CHOOSE k \in valid : \A l \in valid : l <= k].theme_name

\* C23: after any sequence of set_current_theme calls, DEFAULT_COLORS is
\* THEMES[current_theme] and every colour entry of the eight style dictionaries
\* is the one derived from current_theme; a call with a name not in THEMES raises
\* ValueError and leaves current_theme and the dictionaries as they were, so
\* that current_theme is the last name of THEMES that was set.
C23_StylesFollowTheme ==
    LET c == THEMES[current_theme]
    IN  /\ current_theme = LastThemeSet
        /\ \A k \in DOMAIN theme_calls :
             theme_calls[k].raised
             <=> theme_calls[k].theme_name \notin {"blue", "purple", "green", "red", "orange"}
        /\ DEFAULT_COLORS = c
        /\ styles.DEFAULT_STYLE.backgroundColor = c.dark
        /\ styles.DEFAULT_STYLE.color = c.white
        /\ styles.H1_STYLE.color = c.white
        /\ styles.H2_STYLE.color = c.light
        /\ styles.DIVIDER_STYLE.border = <<"1px solid ", c.white>>
        /\ styles.DIVIDER_STYLE.color = c.bold
        /\ styles.TABLE_STYLE.backgroundColor = c.bold
        /\ styles.TABLE_STYLE.color = c.white
        /\ styles.TABLE_HEADER_STYLE.backgroundColor = c.medium
        /\ styles.TABLE_HEADER_STYLE.color = c.white
        /\ styles.TABLE_HEADER_STYLE.border = <<"1px solid ", c.light>>
        /\ styles.TABLE_ROW_STYLE.border = <<"1px solid ", c.light>>
        /\ styles.TABLE_SECTION_TITLE_STYLE.backgroundColor = c.light
        /\ styles.TABLE_SECTION_TITLE_STYLE.color = c.white
        /\ \A s \in DOMAIN styles : DOMAIN styles[s] = DOMAIN InitialStyles(c)[s]

C23_Witness ==
    /\ Len(theme_calls) = 3
    /\ theme_calls[1] = [theme_name |-> "red", raised |-> FALSE]
    /\ theme_calls[2] = [theme_name |-> "purple", raised |-> FALSE]
    /\ theme_calls[3] = [theme_name |-> "Blue", raised |-> TRUE]
    /\ current_theme = "purple"
    /\ styles.TABLE_HEADER_STYLE.backgroundColor = "#9f86c0"
    /\ styles.H2_STYLE.color = "#be95c4"

---------------------------------------------------------------------------
(* C24 *)

\* the budget file has a row of the category
HasCategory(category) == IndicesOf(budget.data, category) # {}

\* C24: for every budget file with at least one income row and at least one
\* expenses row, in any row order and with any number of rows, the Sankey links
\* are built without indexing combined_colors out of range (the run does not
\* raise), and the node list never holds a label twice.
C24_ColoursInRange ==
    /\ (HasCategory(<<"i","n","c","o","m","e">>) /\ HasCategory(<<"e","x","p","e","n","s","e","s">>))
       => /\ budget.pc # "raised"
          /\ budget.exception = ""
    /\ \A k, l \in DOMAIN budget.nodes : k # l => budget.nodes[k] # budget.nodes[l]

====
